---------------------------- MODULE Spec2Model ----------------------------
(***************************************************************************)
(* A model of rgmining/fraud-eagle: the bipartite review graph, the        *)
(* per-review messages, the memoized retrieval and aggregate methods of    *)
(* ReviewGraph, the loopy belief propagation step update() and the derived *)
(* statistics Reviewer.anomalous_score and Product.summary.                *)
(*                                                                         *)
(* Numbers.  The program stores every message as a float holding the       *)
(* logarithm of a probability.  The model stores the probability itself,   *)
(* as an exact fraction <<n, d>> in lowest terms with d > 0.  Under this   *)
(* representation the program's arithmetic reads:                          *)
(*    x + y  on log-messages (np.sum)          QMul                        *)
(*    x - y  on log-messages                   QDiv                        *)
(*    np.logaddexp(x, y)                       QAdd                        *)
(*    abs(np.exp(x) - np.exp(y))               QAbsDiff                    *)
(* Floating-point rounding is outside the model.                           *)
(***************************************************************************)
EXTENDS Integers, Sequences, FiniteSets, TLC

(***************************************************************************)
(* Bounds of the model.                                                    *)
(***************************************************************************)
MaxReviewers == 2
MaxProducts == 2
MaxReviews == 2
MaxUpdates == 2
MaxCalls == 1

(***************************************************************************)
(* Exact fractions.                                                        *)
(***************************************************************************)
RECURSIVE GCD(_, _)
GCD(a, b) == IF b = 0 THEN a ELSE GCD(b, a % b)

Abs(n) == IF n < 0 THEN -n ELSE n

\* The fraction n/d (d # 0) in lowest terms with a positive denominator.
Q(n, d) ==
    LET g == GCD(Abs(n), Abs(d))
        s == IF d < 0 THEN -1 ELSE 1
    IN  <<(s * n) \div g, (s * d) \div g>>

LCM(a, b) == (a \div GCD(a, b)) * b

QAdd(x, y) ==
    LET l == LCM(x[2], y[2])
    IN  Q(x[1] * (l \div x[2]) + y[1] * (l \div y[2]), l)

QSubtract(x, y) == QAdd(x, <<-y[1], y[2]>>)

QMul(x, y) ==
    LET a == Q(x[1], y[2])
        b == Q(y[1], x[2])
    IN  <<a[1] * b[1], a[2] * b[2]>>

QDiv(x, y) == QMul(x, Q(y[2], y[1]))

QLess(x, y) ==
    LET l == LCM(x[2], y[2])
    IN  x[1] * (l \div x[2]) < y[1] * (l \div y[2])

QLeq(x, y) == ~QLess(y, x)

QAbsDiff(x, y) ==
    LET d == QSubtract(x, y)
    IN  <<Abs(d[1]), d[2]>>

Zero == <<0, 1>>
One == <<1, 1>>
Half == <<1, 2>>

\* The largest fraction of a non-empty finite set.
QMax(S) == CHOOSE x \in S : \A y \in S : QLeq(y, x)

(***************************************************************************)
(* labels.py                                                               *)
(***************************************************************************)
PLUS == "PLUS"
MINUS == "MINUS"
GOOD == "GOOD"
BAD == "BAD"
HONEST == "HONEST"
FRAUD == "FRAUD"

ReviewLabel == {PLUS, MINUS}
ProductLabel == {GOOD, BAD}
UserLabel == {HONEST, FRAUD}

\* What a call reports when it raises instead of returning.
ValueError == "ValueError"
KeyError == "KeyError"
\* Python's None: no exception where one is named, and, written NoNode, the
\* reviewer or product argument that excludes nothing.
None == "None"
NoNode == 0
\* The place of a value that does not exist: the attribute of an object that
\* was not constructed, the result of a call that raised.
NoValue == <<>>

(***************************************************************************)
(* likelihood.py                                                           *)
(***************************************************************************)
\* A psi that gives a fraud the epsilon of an honest user on a good product
\* with a positive review.
psi_single_epsilon(u_label, p_label, r_label, eps) ==
    IF r_label = PLUS THEN
        IF u_label = HONEST THEN
            IF p_label = GOOD THEN QSubtract(One, eps)
            ELSE IF p_label = BAD THEN eps
            ELSE ValueError
        ELSE IF u_label = FRAUD THEN
            IF p_label = GOOD THEN eps
            ELSE IF p_label = BAD THEN QSubtract(One, QMul(<<2, 1>>, eps))
            ELSE ValueError
        ELSE ValueError
    ELSE IF r_label = MINUS THEN
        IF u_label = HONEST THEN
            IF p_label = GOOD THEN eps
            ELSE IF p_label = BAD THEN QSubtract(One, eps)
            ELSE ValueError
        ELSE IF u_label = FRAUD THEN
            IF p_label = GOOD THEN QSubtract(One, QMul(<<2, 1>>, eps))
            ELSE IF p_label = BAD THEN QMul(<<2, 1>>, eps)
            ELSE ValueError
        ELSE ValueError
    ELSE ValueError

psi(u_label, p_label, r_label, eps) ==
    IF r_label = PLUS THEN
        IF u_label = HONEST THEN
            IF p_label = GOOD THEN QSubtract(One, eps)
            ELSE IF p_label = BAD THEN eps
            ELSE ValueError
        ELSE IF u_label = FRAUD THEN
            IF p_label = GOOD THEN QMul(<<2, 1>>, eps)
            ELSE IF p_label = BAD THEN QSubtract(One, QMul(<<2, 1>>, eps))
            ELSE ValueError
        ELSE ValueError
    ELSE IF r_label = MINUS THEN
        IF u_label = HONEST THEN
            IF p_label = GOOD THEN eps
            ELSE IF p_label = BAD THEN QSubtract(One, eps)
            ELSE ValueError
        ELSE IF u_label = FRAUD THEN
            IF p_label = GOOD THEN QSubtract(One, QMul(<<2, 1>>, eps))
            ELSE IF p_label = BAD THEN QMul(<<2, 1>>, eps)
            ELSE ValueError
        ELSE ValueError
    ELSE ValueError

(***************************************************************************)
(* prior.py: the priors are log 2 whatever the label.                      *)
(***************************************************************************)
LOG_2 == <<2, 1>>

phi_u(u_label) == LOG_2

phi_p(p_label) == LOG_2

(***************************************************************************)
(* graph.py: Review.                                                       *)
(***************************************************************************)
LOG_POINT_5 == Half

\* A Review whose messages start at log(1).
Review_certain(rating) ==
    [rating |-> rating,
     user_to_product |-> [l \in ProductLabel |-> One],
     product_to_user |-> [l \in UserLabel |-> One]]

\* Review.__init__
Review(rating) ==
    [rating |-> rating,
     user_to_product |-> [l \in ProductLabel |-> LOG_POINT_5],
     product_to_user |-> [l \in UserLabel |-> LOG_POINT_5]]

\* An evaluation that is PLUS above 0.5 only.
evaluation_above(review) ==
    IF QLess(Half, review.rating) THEN PLUS ELSE MINUS

\* Review.evaluation
evaluation(review) ==
    IF QLeq(Half, review.rating) THEN PLUS ELSE MINUS


(***************************************************************************)
(* Inputs of the operations.                                               *)
(***************************************************************************)
\* Values of epsilon handed to ReviewGraph(epsilon).
EpsilonInputs == {Zero, <<1, 10>>, Half}

\* Normalized ratings handed to add_review: the least rating that evaluates
\* to PLUS.
Ratings == {Half}

\* Probabilities whose logarithm is handed to the explicit message setters.
SetValues == {<<4, 5>>}

(***************************************************************************)
(* State.                                                                  *)
(*   status     None before ReviewGraph(epsilon) is called, "ok" once a    *)
(*              graph exists, ValueError when the constructor raised       *)
(*   epsilon    ReviewGraph.epsilon                                        *)
(*   reviewers  ReviewGraph.reviewers: the Reviewer objects in insertion   *)
(*              order.  A node is compared by identity, so the i-th        *)
(*              reviewer created is the number i; likewise for products.   *)
(*   products   ReviewGraph.products                                       *)
(*   graph      ReviewGraph.graph, the networkx DiGraph: succ[r] are the   *)
(*              successors of reviewer r and pred[p] the predecessors of   *)
(*              product p, both in edge insertion order, and review[r, p]  *)
(*              the "review" attribute of the edge, a reference into heap  *)
(*   heap       every Review object created so far; a Review is referred   *)
(*              to by its position                                         *)
(*   cache      the lru_cache of each memoized method: a function from    *)
(*              the arguments of the calls remembered to their results     *)
(*   ret        the value the latest update() call returned, or the        *)
(*              exception it raised                                        *)
(*   writes     the message pairs the latest update() call rewrote, in     *)
(*              order: <<"user_to_product", i>> or <<"product_to_user",    *)
(*              i>> for the Review heap[i]                                 *)
(*   nUpdates   calls of update() made so far                              *)
(*   nCalls     calls made so far of the message setters of a Review and   *)
(*              of the reading methods by the user of the graph            *)
(*   noReads    the heap, cache, ret and nCalls of a second program making *)
(*              the same edits of its graph and update() calls: under      *)
(*              SpecReads it makes none of the reads of                    *)
(*              Reviewer.anomalous_score and Product.summary, under        *)
(*              SpecPair none of the retrieval calls, and has setter calls *)
(*              of its own; the other specifications do not use it         *)
(***************************************************************************)
VARIABLES status, epsilon, reviewers, products, graph, heap, cache, ret,
          writes, nUpdates, nCalls, noReads

vars == <<status, epsilon, reviewers, products, graph, heap, cache, ret,
          writes, nUpdates, nCalls, noReads>>

\* A function with no argument remembered.
Empty == <<>>

Range(seq) == {seq[i] : i \in 1..Len(seq)}

Init ==
    /\ status = None
    /\ epsilon = NoValue
    /\ reviewers = <<>>
    /\ products = <<>>
    /\ graph = [succ |-> Empty, pred |-> Empty, review |-> Empty]
    /\ heap = <<>>
    /\ cache = [retrieve_reviewers |-> Empty,
                retrieve_products |-> Empty,
                retrieve_review |-> Empty,
                prod_message_from_all_users |-> Empty,
                prod_message_from_all_products |-> Empty]
    /\ ret = [v |-> NoValue, raised |-> None]
    /\ writes = <<>>
    /\ nUpdates = 0
    /\ nCalls = 0
    /\ noReads = [heap |-> heap, cache |-> cache, ret |-> ret,
                  nCalls |-> nCalls]

(***************************************************************************)
(* ReviewGraph.__init__                                                    *)
(***************************************************************************)
\* A check that lets the two ends of the interval through.
EpsilonRejectedOpen(eps) == QLess(eps, Zero) \/ QLess(Half, eps)

EpsilonRejected(eps) == QLeq(eps, Zero) \/ QLeq(Half, eps)

NewGraph(eps) ==
    /\ status = None
    /\ IF EpsilonRejected(eps)
       THEN /\ status' = ValueError
            /\ UNCHANGED epsilon
       ELSE /\ status' = "ok"
            /\ epsilon' = eps
    /\ UNCHANGED <<reviewers, products, graph, heap, cache, ret, writes,
                   nUpdates, nCalls>>

(***************************************************************************)
(* ReviewGraph.new_reviewer, new_product, add_review                       *)
(***************************************************************************)
new_reviewer ==
    /\ status = "ok"
    /\ LET reviewer == Len(reviewers) + 1
       IN  /\ graph' = [graph EXCEPT !.succ = @ @@ (reviewer :> <<>>)]
           /\ reviewers' = Append(reviewers, reviewer)
    /\ UNCHANGED <<status, epsilon, products, heap, cache, ret, writes,
                   nUpdates, nCalls>>

new_product ==
    /\ status = "ok"
    /\ LET product == Len(products) + 1
       IN  /\ graph' = [graph EXCEPT !.pred = @ @@ (product :> <<>>)]
           /\ products' = Append(products, product)
    /\ UNCHANGED <<status, epsilon, reviewers, heap, cache, ret, writes,
                   nUpdates, nCalls>>

\* DiGraph.add_edge(u, v, review=review): a new edge is appended to the
\* adjacency of both ends, an existing edge keeps its place and has its
\* attribute replaced.
add_edge(g, reviewer, product, review) ==
    [succ |-> [r \in DOMAIN g.succ |->
                 IF r = reviewer /\ product \notin Range(g.succ[r])
                 THEN Append(g.succ[r], product) ELSE g.succ[r]],
     pred |-> [p \in DOMAIN g.pred |->
                 IF p = product /\ reviewer \notin Range(g.pred[p])
                 THEN Append(g.pred[p], reviewer) ELSE g.pred[p]],
     review |-> [e \in DOMAIN g.review \cup {<<reviewer, product>>} |->
                 IF e = <<reviewer, product>> THEN review ELSE g.review[e]]]

add_review(reviewer, product, rating) ==
    /\ status = "ok"
    /\ heap' = Append(heap, Review(rating))
    /\ graph' = add_edge(graph, reviewer, product, Len(heap) + 1)
    /\ UNCHANGED <<status, epsilon, reviewers, products, cache, ret, writes,
                   nUpdates, nCalls>>

(***************************************************************************)
(* Review.update_user_to_product, Review.update_product_to_user: the       *)
(* caller holds the Review that add_review returned.  The assignment       *)
(* self._user_to_product[label] = value stores the value under any label:  *)
(* it replaces the value of a key the dict has and adds a key it lacks.    *)
(***************************************************************************)
update_user_to_product(review, label, value) ==
    /\ status = "ok"
    /\ nCalls < MaxCalls
    /\ heap' = [heap EXCEPT ![review].user_to_product = (label :> value) @@ @]
    /\ nCalls' = nCalls + 1
    /\ UNCHANGED <<status, epsilon, reviewers, products, graph, cache, ret,
                   writes, nUpdates>>

update_product_to_user(review, label, value) ==
    /\ status = "ok"
    /\ nCalls < MaxCalls
    /\ heap' = [heap EXCEPT ![review].product_to_user = (label :> value) @@ @]
    /\ nCalls' = nCalls + 1
    /\ UNCHANGED <<status, epsilon, reviewers, products, graph, cache, ret,
                   writes, nUpdates>>


(***************************************************************************)
(* Memoized methods.  A method of the graph is modelled by an operator     *)
(* from the lru_cache state c (and, where it reads messages, the Review    *)
(* objects h) to the outcome of the call: [c |-> the caches after the      *)
(* call, v |-> the value returned, or KeyError].  lru_cache remembers a    *)
(* call only when it returns; raised names the exception of one that did    *)
(* not.                                              *)
(***************************************************************************)
Outcome(c, v) == [c |-> c, v |-> v, raised |-> None]

Raise(c, e) == [c |-> c, v |-> NoValue, raised |-> e]

\* ReviewGraph.retrieve_reviewers
retrieve_reviewers(c, product) ==
    IF product \in DOMAIN c.retrieve_reviewers
    THEN Outcome(c, c.retrieve_reviewers[product])
    ELSE LET v == graph.pred[product]
         IN  Outcome([c EXCEPT !.retrieve_reviewers = @ @@ (product :> v)], v)

\* ReviewGraph.retrieve_products
retrieve_products(c, reviewer) ==
    IF reviewer \in DOMAIN c.retrieve_products
    THEN Outcome(c, c.retrieve_products[reviewer])
    ELSE LET v == graph.succ[reviewer]
         IN  Outcome([c EXCEPT !.retrieve_products = @ @@ (reviewer :> v)], v)

\* ReviewGraph.retrieve_review
retrieve_review(c, reviewer, product) ==
    LET e == <<reviewer, product>>
    IN  IF e \in DOMAIN c.retrieve_review
        THEN Outcome(c, c.retrieve_review[e])
        ELSE IF e \in DOMAIN graph.review
        THEN Outcome([c EXCEPT !.retrieve_review = @ @@ (e :> graph.review[e])],
                     graph.review[e])
        ELSE Raise(c, KeyError)

\* The calls retrieve_review(r, p) for every pair <<r, p>> of a set E, one
\* after the other: v[e] is what the call for e returned.
RECURSIVE retrieve_review_each(_, _)
retrieve_review_each(c, E) ==
    IF E = {} THEN Outcome(c, Empty)
    ELSE LET e == CHOOSE x \in E : TRUE
             both(first, rest) ==
                 IF rest.raised # None THEN rest
                 ELSE Outcome(rest.c, (e :> first.v) @@ rest.v)
             others(first) ==
                 IF first.raised # None THEN first
                 ELSE both(first, retrieve_review_each(first.c, E \ {e}))
         IN  others(retrieve_review(c, e[1], e[2]))

\* np.sum of the log-messages m[k], k in S: the product of the
\* probabilities, 1 for an empty list.
RECURSIVE np_sum(_, _)
np_sum(m, S) ==
    IF S = {} THEN One
    ELSE LET k == CHOOSE x \in S : TRUE
         IN  QMul(m[k], np_sum(m, S \ {k}))

\* ReviewGraph.prod_message_from_all_users
prod_message_from_all_users(c, h, product, p_label) ==
    LET key == <<product, p_label>>
        memoize(c2, v) ==
            Outcome([c2 EXCEPT !.prod_message_from_all_users = @ @@ (key :> v)], v)
        messages(E, rv) ==
            IF rv.raised # None THEN rv
            ELSE memoize(rv.c,
                         np_sum([e \in E |-> h[rv.v[e]].user_to_product[p_label]], E))
        reviews(c2, E) == messages(E, retrieve_review_each(c2, E))
        neighbours(ns) == reviews(ns.c, {<<r, product>> : r \in Range(ns.v)})
    IN  IF key \in DOMAIN c.prod_message_from_all_users
        THEN Outcome(c, c.prod_message_from_all_users[key])
        ELSE neighbours(retrieve_reviewers(c, product))

\* An aggregate that leaves no reviewer out.
prod_message_from_users_all(c, h, reviewer, product, p_label) ==
    prod_message_from_all_users(c, h, product, p_label)

\* ReviewGraph.prod_message_from_users
prod_message_from_users(c, h, reviewer, product, p_label) ==
    LET excluding(sum_all, rv) ==
            IF rv.raised # None THEN rv
            ELSE Outcome(rv.c, QDiv(sum_all.v, h[rv.v].user_to_product[p_label]))
        rest(sum_all) ==
            IF sum_all.raised # None THEN sum_all
            ELSE IF reviewer = NoNode
            THEN Outcome(sum_all.c, QDiv(sum_all.v, One))
            ELSE excluding(sum_all,
                           retrieve_review(sum_all.c, reviewer, product))
    IN  rest(prod_message_from_all_users(c, h, product, p_label))

\* ReviewGraph.prod_message_from_all_products
prod_message_from_all_products(c, h, reviewer, u_label) ==
    LET key == <<reviewer, u_label>>
        memoize(c2, v) ==
            Outcome([c2 EXCEPT !.prod_message_from_all_products = @ @@ (key :> v)], v)
        messages(E, rv) ==
            IF rv.raised # None THEN rv
            ELSE memoize(rv.c,
                         np_sum([e \in E |-> h[rv.v[e]].product_to_user[u_label]], E))
        reviews(c2, E) == messages(E, retrieve_review_each(c2, E))
        neighbours(ns) == reviews(ns.c, {<<reviewer, p>> : p \in Range(ns.v)})
    IN  IF key \in DOMAIN c.prod_message_from_all_products
        THEN Outcome(c, c.prod_message_from_all_products[key])
        ELSE neighbours(retrieve_products(c, reviewer))

\* ReviewGraph.prod_message_from_products
prod_message_from_products(c, h, reviewer, product, u_label) ==
    LET excluding(sum_all, rv) ==
            IF rv.raised # None THEN rv
            ELSE Outcome(rv.c, QDiv(sum_all.v, h[rv.v].product_to_user[u_label]))
        rest(sum_all) ==
            IF sum_all.raised # None THEN sum_all
            ELSE IF product = NoNode
            THEN Outcome(sum_all.c, QDiv(sum_all.v, One))
            ELSE excluding(sum_all,
                           retrieve_review(sum_all.c, reviewer, product))
    IN  rest(prod_message_from_all_products(c, h, reviewer, u_label))


(***************************************************************************)
(* ReviewGraph.update and its helpers.                                     *)
(***************************************************************************)
\* ReviewGraph._update_user_to_product
_update_user_to_product(c, h, reviewer, product, p_label) ==
    LET message(review, mH, mF) ==
            IF mF.raised # None THEN mF
            ELSE LET res == [u \in UserLabel |->
                          QMul(QMul(psi(u, p_label, evaluation(review), epsilon),
                                    phi_u(u)),
                               IF u = HONEST THEN mH.v ELSE mF.v)]
                 IN  Outcome(mF.c, QAdd(res[HONEST], res[FRAUD]))
        fraud(review, mH) ==
            IF mH.raised # None THEN mH
            ELSE message(review, mH,
                         prod_message_from_products(mH.c, h, reviewer, product,
                                                    FRAUD))
        honest(rv) ==
            IF rv.raised # None THEN rv
            ELSE fraud(h[rv.v],
                       prod_message_from_products(rv.c, h, reviewer, product,
                                                  HONEST))
    IN  honest(retrieve_review(c, reviewer, product))

\* ReviewGraph._update_product_to_user
_update_product_to_user(c, h, reviewer, product, u_label) ==
    LET message(review, mG, mB) ==
            IF mB.raised # None THEN mB
            ELSE LET res == [l \in ProductLabel |->
                          QMul(QMul(psi(u_label, l, evaluation(review), epsilon),
                                    phi_p(l)),
                               IF l = GOOD THEN mG.v ELSE mB.v)]
                 IN  Outcome(mB.c, QAdd(res[GOOD], res[BAD]))
        bad(review, mG) ==
            IF mG.raised # None THEN mG
            ELSE message(review, mG,
                         prod_message_from_users(mG.c, h, reviewer, product, BAD))
        good(rv) ==
            IF rv.raised # None THEN rv
            ELSE bad(h[rv.v],
                     prod_message_from_users(rv.c, h, reviewer, product, GOOD))
    IN  good(retrieve_review(c, reviewer, product))

\* abs(np.exp(old) - np.exp(updated)), an element of diffs.
diff(old, updated) == QAbsDiff(old, updated)

\* The progress of one update() call: the caches, the Review objects, the
\* list diffs, and the message pairs rewritten so far.
Progress(c, h, diffs, w) == [c |-> c, h |-> h, diffs |-> diffs, writes |-> w]

\* The body of the first loop of update() for one reviewer and product.
user_to_product_step(st, reviewer, product) ==
    LET write(g, b, rv) ==
            LET s == QAdd(g.v, b.v)
                old == st.h[rv.v].user_to_product
                updated == [l \in ProductLabel |->
                              QDiv(IF l = GOOD THEN g.v ELSE b.v, s)]
            IN  Progress(rv.c,
                         [st.h EXCEPT ![rv.v].user_to_product = updated],
                         st.diffs \o <<diff(old[GOOD], updated[GOOD]),
                                        diff(old[BAD], updated[BAD])>>,
                         Append(st.writes, <<"user_to_product", rv.v>>))
        review(g, b) == write(g, b, retrieve_review(b.c, reviewer, product))
        bad(g) ==
            review(g, _update_user_to_product(g.c, st.h, reviewer, product, BAD))
    IN  bad(_update_user_to_product(st.c, st.h, reviewer, product, GOOD))

\* The body of the second loop of update() for one product and reviewer.
product_to_user_step(st, reviewer, product) ==
    LET write(hn, fr, rv) ==
            LET s == QAdd(hn.v, fr.v)
                old == st.h[rv.v].product_to_user
                updated == [u \in UserLabel |->
                              QDiv(IF u = HONEST THEN hn.v ELSE fr.v, s)]
            IN  Progress(rv.c,
                         [st.h EXCEPT ![rv.v].product_to_user = updated],
                         st.diffs \o <<diff(old[HONEST], updated[HONEST]),
                                        diff(old[FRAUD], updated[FRAUD])>>,
                         Append(st.writes, <<"product_to_user", rv.v>>))
        review(hn, fr) == write(hn, fr, retrieve_review(fr.c, reviewer, product))
        fraud(hn) ==
            review(hn,
                   _update_product_to_user(hn.c, st.h, reviewer, product, FRAUD))
    IN  fraud(_update_product_to_user(st.c, st.h, reviewer, product, HONEST))

\* for product in self.retrieve_products(reviewer), from its j-th element.
RECURSIVE user_to_product_products(_, _, _, _)
user_to_product_products(st, reviewer, ps, j) ==
    IF j > Len(ps) THEN st
    ELSE user_to_product_products(user_to_product_step(st, reviewer, ps[j]),
                                  reviewer, ps, j + 1)

\* for reviewer in self.reviewers, from its i-th element.
RECURSIVE user_to_product_phase(_, _)
user_to_product_phase(st, i) ==
    IF i > Len(reviewers) THEN st
    ELSE LET ps == retrieve_products(st.c, reviewers[i])
         IN  user_to_product_phase(
                 user_to_product_products([st EXCEPT !.c = ps.c],
                                          reviewers[i], ps.v, 1),
                 i + 1)

\* for reviewer in self.retrieve_reviewers(product), from its j-th element.
RECURSIVE product_to_user_reviewers(_, _, _, _)
product_to_user_reviewers(st, product, rs, j) ==
    IF j > Len(rs) THEN st
    ELSE product_to_user_reviewers(product_to_user_step(st, rs[j], product),
                                   product, rs, j + 1)

\* for product in self.products, from its i-th element.
RECURSIVE product_to_user_phase(_, _)
product_to_user_phase(st, i) ==
    IF i > Len(products) THEN st
    ELSE LET rs == retrieve_reviewers(st.c, products[i])
         IN  product_to_user_phase(
                 product_to_user_reviewers([st EXCEPT !.c = rs.c],
                                           products[i], rs.v, 1),
                 i + 1)

\* A result that reports the first difference recorded, not the largest.
first_diff(diffs) ==
    IF diffs = <<>> THEN [v |-> NoValue, raised |-> ValueError]
    ELSE [v |-> diffs[1], raised |-> None]

\* max(diffs): raises ValueError on an empty list.
max_diffs(diffs) ==
    IF diffs = <<>> THEN [v |-> NoValue, raised |-> ValueError]
    ELSE [v |-> QMax(Range(diffs)), raised |-> None]

\* A clearing that forgets the aggregates over users only.
cache_clear_users(c) ==
    [c EXCEPT !.prod_message_from_all_users = Empty]

\* cache_clear() of the two aggregate methods.
cache_clear(c) ==
    [c EXCEPT !.prod_message_from_all_users = Empty,
              !.prod_message_from_all_products = Empty]

\* The state a call of update() ends in.
update_run ==
    product_to_user_phase(
        user_to_product_phase(Progress(cache, heap, <<>>, <<>>), 1), 1)

update ==
    /\ status = "ok"
    /\ nUpdates < MaxUpdates
    /\ LET st == update_run
       IN  /\ heap' = st.h
           /\ cache' = cache_clear(st.c)
           /\ ret' = max_diffs(st.diffs)
           /\ writes' = st.writes
    /\ nUpdates' = nUpdates + 1
    /\ UNCHANGED <<status, epsilon, reviewers, products, graph, nCalls>>

(***************************************************************************)
(* Reviewer.anomalous_score and Product.summary.                           *)
(***************************************************************************)
\* What np.mean returns for an empty list.
NaN == <<0, 0>>

\* A score that divides by the belief in HONEST alone.
anomalous_score_odds(c, h, reviewer) ==
    LET score(mH, mF) ==
            IF mF.raised # None THEN mF
            ELSE LET b == [u \in UserLabel |->
                        QMul(phi_u(u), IF u = HONEST THEN mH.v ELSE mF.v)]
                 IN  Outcome(mF.c, QDiv(b[FRAUD], b[HONEST]))
        fraud(mH) ==
            IF mH.raised # None THEN mH
            ELSE score(mH, prod_message_from_products(mH.c, h, reviewer, NoNode,
                                                      FRAUD))
    IN  fraud(prod_message_from_products(c, h, reviewer, NoNode, HONEST))

anomalous_score(c, h, reviewer) ==
    LET score(mH, mF) ==
            IF mF.raised # None THEN mF
            ELSE LET b == [u \in UserLabel |->
                        QMul(phi_u(u), IF u = HONEST THEN mH.v ELSE mF.v)]
                 IN  Outcome(mF.c, QDiv(b[FRAUD], QAdd(b[HONEST], b[FRAUD])))
        fraud(mH) ==
            IF mH.raised # None THEN mH
            ELSE score(mH, prod_message_from_products(mH.c, h, reviewer, NoNode,
                                                      FRAUD))
    IN  fraud(prod_message_from_products(c, h, reviewer, NoNode, HONEST))

\* [self.graph.retrieve_review(r, self).rating for r in reviewers], from the
\* i-th reviewer.
RECURSIVE summary_ratings(_, _, _, _, _)
summary_ratings(c, h, product, rs, i) ==
    IF i > Len(rs) THEN Outcome(c, <<>>)
    ELSE LET both(rv, rest) ==
                 IF rest.raised # None THEN rest
                 ELSE Outcome(rest.c, <<h[rv.v].rating>> \o rest.v)
             others(rv) ==
                 IF rv.raised # None THEN rv
                 ELSE both(rv, summary_ratings(rv.c, h, product, rs, i + 1))
         IN  others(retrieve_review(c, rs[i], product))

\* [1 - r.anomalous_score for r in reviewers], from the i-th reviewer.
RECURSIVE summary_weights(_, _, _, _)
summary_weights(c, h, rs, i) ==
    IF i > Len(rs) THEN Outcome(c, <<>>)
    ELSE LET both(a, rest) ==
                 IF rest.raised # None THEN rest
                 ELSE Outcome(rest.c, <<QSubtract(One, a.v)>> \o rest.v)
             others(a) ==
                 IF a.raised # None THEN a
                 ELSE both(a, summary_weights(a.c, h, rs, i + 1))
         IN  others(anomalous_score(c, h, rs[i]))

\* sum of the elements of a list of fractions.
RECURSIVE sum(_)
sum(xs) == IF xs = <<>> THEN Zero ELSE QAdd(Head(xs), sum(Tail(xs)))

\* np.mean(ratings)
np_mean(ratings) ==
    IF ratings = <<>> THEN NaN
    ELSE QDiv(sum(ratings), <<Len(ratings), 1>>)

\* An average that weighs each rating by what its weight lacks to 1.
np_average_complement(ratings, weights) ==
    QDiv(sum([i \in 1..Len(ratings) |->
                QMul(ratings[i], QSubtract(One, weights[i]))]),
         sum([i \in 1..Len(weights) |-> QSubtract(One, weights[i])]))

\* np.average(ratings, weights=weights), the weights not summing to zero.
np_average(ratings, weights) ==
    QDiv(sum([i \in 1..Len(ratings) |-> QMul(ratings[i], weights[i])]),
         sum(weights))

summary(c, h, product) ==
    LET average(ratings, weights) ==
            IF weights.raised # None THEN weights
            ELSE Outcome(weights.c,
                         IF sum(weights.v) = Zero
                         THEN np_mean(ratings.v)
                         ELSE np_average(ratings.v, weights.v))
        weigh(rs, ratings) ==
            IF ratings.raised # None THEN ratings
            ELSE average(ratings, summary_weights(ratings.c, h, rs.v, 1))
        rate(rs) == weigh(rs, summary_ratings(rs.c, h, product, rs.v, 1))
    IN  rate(retrieve_reviewers(c, product))


(***************************************************************************)
(* Calls of the reading methods by the user of the graph.  A call that     *)
(* raises leaves the caches as they were when it raised.                   *)
(***************************************************************************)
Read(outcome) ==
    /\ status = "ok"
    /\ nCalls < MaxCalls
    /\ cache' = outcome.c
    /\ nCalls' = nCalls + 1
    /\ UNCHANGED <<status, epsilon, reviewers, products, graph, heap, ret,
                   writes, nUpdates>>

call_retrieve_reviewers(product) ==
    Read(retrieve_reviewers(cache, product))

call_retrieve_products(reviewer) ==
    Read(retrieve_products(cache, reviewer))

call_retrieve_review(reviewer, product) ==
    Read(retrieve_review(cache, reviewer, product))

call_prod_message_from_users(reviewer, product, p_label) ==
    Read(prod_message_from_users(cache, heap, reviewer, product, p_label))

call_prod_message_from_products(reviewer, product, u_label) ==
    Read(prod_message_from_products(cache, heap, reviewer, product, u_label))

call_anomalous_score(reviewer) ==
    Read(anomalous_score(cache, heap, reviewer))

call_summary(product) ==
    Read(summary(cache, heap, product))

(***************************************************************************)
(* The specification.                                                      *)
(***************************************************************************)
Next ==
    /\ \/ \E eps \in EpsilonInputs : NewGraph(eps)
       \/ Len(reviewers) < MaxReviewers /\ new_reviewer
       \/ Len(products) < MaxProducts /\ new_product
       \/ /\ Len(heap) < MaxReviews
          /\ \E r \in Range(reviewers), p \in Range(products), x \in Ratings :
                add_review(r, p, x)
       \/ \E i \in 1..Len(heap), l \in ProductLabel, v \in SetValues :
             update_user_to_product(i, l, v)
       \/ \E i \in 1..Len(heap), l \in UserLabel, v \in SetValues :
             update_product_to_user(i, l, v)
       \/ update
       \/ \E p \in Range(products) : call_retrieve_reviewers(p)
       \/ \E r \in Range(reviewers) : call_retrieve_products(r)
       \/ \E r \in Range(reviewers), p \in Range(products) :
             call_retrieve_review(r, p)
       \/ \E r \in Range(reviewers) \cup {NoNode}, p \in Range(products),
             l \in ProductLabel : call_prod_message_from_users(r, p, l)
       \/ \E r \in Range(reviewers), p \in Range(products) \cup {NoNode},
             l \in UserLabel : call_prod_message_from_products(r, p, l)
       \/ \E r \in Range(reviewers) : call_anomalous_score(r)
       \/ \E p \in Range(products) : call_summary(p)
    /\ UNCHANGED noReads

Spec == Init /\ [][Next]_vars


(***************************************************************************)
(* Construction and editing alone, over a wider choice of epsilon.         *)
(***************************************************************************)
EpsilonInputsNew ==
    {<<-1, 10>>, Zero, <<1, 100>>, <<1, 10>>, <<1, 4>>, <<2, 5>>,
     <<49, 100>>, Half, <<3, 5>>, One}

NextNew ==
    /\ \/ \E eps \in EpsilonInputsNew : NewGraph(eps)
       \/ Len(reviewers) < MaxReviewers /\ new_reviewer
       \/ Len(products) < MaxProducts /\ new_product
       \/ /\ Len(heap) < MaxReviews
          /\ \E r \in Range(reviewers), p \in Range(products), x \in Ratings :
                add_review(r, p, x)
    /\ UNCHANGED noReads

SpecNew == Init /\ [][NextNew]_vars

(***************************************************************************)
(* Review.user_to_product and Review.product_to_user called by the user of *)
(* the graph, with any label of labels.py: the subscription of the dict    *)
(* raises KeyError for a key the dict lacks.                               *)
(***************************************************************************)
Labels == ProductLabel \cup UserLabel

user_to_product(review, label) ==
    IF label \in DOMAIN heap[review].user_to_product
    THEN Outcome(cache, heap[review].user_to_product[label])
    ELSE Raise(cache, KeyError)

product_to_user(review, label) ==
    IF label \in DOMAIN heap[review].product_to_user
    THEN Outcome(cache, heap[review].product_to_user[label])
    ELSE Raise(cache, KeyError)

call_user_to_product(review, label) ==
    Read(user_to_product(review, label))

call_product_to_user(review, label) ==
    Read(product_to_user(review, label))

(***************************************************************************)
(* Reviews and their messages: ratings on both sides of 0.5, and the       *)
(* message methods of a Review called with every label of labels.py.       *)
(***************************************************************************)
EpsilonInputsReview == {<<1, 10>>}

RatingsReview == {<<2, 5>>, Half, <<3, 5>>}

\* The Review objects created under this specification.
MaxReviewsReview == 1

NextReview ==
    /\ \/ \E eps \in EpsilonInputsReview : NewGraph(eps)
       \/ Len(reviewers) < MaxReviewers /\ new_reviewer
       \/ Len(products) < MaxProducts /\ new_product
       \/ /\ Len(heap) < MaxReviewsReview
          /\ \E r \in Range(reviewers), p \in Range(products),
                x \in RatingsReview : add_review(r, p, x)
       \/ \E i \in 1..Len(heap), l \in Labels, v \in SetValues :
             update_user_to_product(i, l, v)
       \/ \E i \in 1..Len(heap), l \in Labels, v \in SetValues :
             update_product_to_user(i, l, v)
       \/ \E i \in 1..Len(heap), l \in Labels : call_user_to_product(i, l)
       \/ \E i \in 1..Len(heap), l \in Labels : call_product_to_user(i, l)
       \/ \E r \in Range(reviewers), p \in Range(products) :
             call_retrieve_review(r, p)
       \/ update
    /\ UNCHANGED noReads

SpecReview == Init /\ [][NextReview]_vars

(***************************************************************************)
(* Reads of Reviewer.anomalous_score and Product.summary among the edits   *)
(* of the graph and the calls of update(), next to the program that makes  *)
(* the same calls without the reads.  A read changes neither the graph nor *)
(* the node lists, so both programs have the same ones.                    *)
(***************************************************************************)
EpsilonInputsReads == {<<1, 10>>}

\* add_review in the program without the reads.
add_review_noReads(rating) ==
    noReads' = [noReads EXCEPT !.heap = Append(@, Review(rating))]

\* update() in the program without the reads.
update_noReads ==
    LET outcome(st) ==
            [heap |-> st.h,
             cache |-> cache_clear(st.c),
             ret |-> max_diffs(st.diffs),
             nCalls |-> noReads.nCalls]
    IN  noReads' = outcome(
            product_to_user_phase(
                user_to_product_phase(
                    Progress(noReads.cache, noReads.heap, <<>>, <<>>), 1), 1))

NextReads ==
    \/ \E eps \in EpsilonInputsReads : NewGraph(eps) /\ UNCHANGED noReads
    \/ Len(reviewers) < MaxReviewers /\ new_reviewer /\ UNCHANGED noReads
    \/ Len(products) < MaxProducts /\ new_product /\ UNCHANGED noReads
    \/ /\ Len(heap) < MaxReviews
       /\ \E r \in Range(reviewers), p \in Range(products), x \in Ratings :
             add_review(r, p, x) /\ add_review_noReads(x)
    \/ update /\ update_noReads
    \/ \E r \in Range(reviewers) : call_anomalous_score(r) /\ UNCHANGED noReads
    \/ \E p \in Range(products) : call_summary(p) /\ UNCHANGED noReads

SpecReads == Init /\ [][NextReads]_vars

(***************************************************************************)
(* Summaries of products whose reviews differ in rating, with a setter     *)
(* that moves the score of one reviewer away from the others.              *)
(***************************************************************************)
EpsilonInputsSummary == {<<1, 10>>}

RatingsSummary == {<<2, 5>>, <<3, 5>>}

NextSummary ==
    /\ \/ \E eps \in EpsilonInputsSummary : NewGraph(eps)
       \/ Len(reviewers) < MaxReviewers /\ new_reviewer
       \/ Len(products) < MaxProducts /\ new_product
       \/ /\ Len(heap) < MaxReviews
          /\ \E r \in Range(reviewers), p \in Range(products),
                x \in RatingsSummary : add_review(r, p, x)
       \/ \E i \in 1..Len(heap), l \in UserLabel, v \in SetValues :
             update_product_to_user(i, l, v)
       \/ update
       \/ \E r \in Range(reviewers) : call_anomalous_score(r)
       \/ \E p \in Range(products) : call_summary(p)
    /\ UNCHANGED noReads

SpecSummary == Init /\ [][NextSummary]_vars

(***************************************************************************)
(* Two graphs with the same nodes, reviews, ratings and epsilon: the       *)
(* second differs in user_to_product messages, stored by its setter, and   *)
(* has seen none of the retrieval calls made on the first.                 *)
(***************************************************************************)
EpsilonInputsPair == {<<1, 10>>}

\* Review.update_user_to_product on a Review of the second graph.
update_user_to_product_noReads(review, label, value) ==
    /\ status = "ok"
    /\ noReads.nCalls < MaxCalls
    /\ noReads' = [noReads EXCEPT
                     !.heap[review].user_to_product = (label :> value) @@ @,
                     !.nCalls = @ + 1]
    /\ UNCHANGED <<status, epsilon, reviewers, products, graph, heap, cache,
                   ret, writes, nUpdates, nCalls>>

NextPair ==
    \/ \E eps \in EpsilonInputsPair : NewGraph(eps) /\ UNCHANGED noReads
    \/ Len(reviewers) < MaxReviewers /\ new_reviewer /\ UNCHANGED noReads
    \/ Len(products) < MaxProducts /\ new_product /\ UNCHANGED noReads
    \/ /\ Len(heap) < MaxReviews
       /\ \E r \in Range(reviewers), p \in Range(products), x \in Ratings :
             add_review(r, p, x) /\ add_review_noReads(x)
    \/ \E i \in 1..Len(heap), l \in ProductLabel, v \in SetValues :
          update_user_to_product_noReads(i, l, v)
    \/ \E r \in Range(reviewers) :
          call_retrieve_products(r) /\ UNCHANGED noReads
    \/ \E p \in Range(products) :
          call_retrieve_reviewers(p) /\ UNCHANGED noReads
    \/ update /\ update_noReads

SpecPair == Init /\ [][NextPair]_vars

(***************************************************************************)
(* A graph used while another ReviewGraph instance of the process is used  *)
(* too.  lru_cache is attached to the methods, so the instances share the  *)
(* five caches; every key holds the graph it was made for, and the other   *)
(* instance reaches the entries of this graph only by the cache_clear()    *)
(* calls of its update().  Here noReads is this graph in the program       *)
(* that makes the same calls on it and none on the other instance.         *)
(***************************************************************************)
EpsilonInputsInstances == {<<1, 10>>}

\* A reading call in the program without the other instance.
Read_noReads(outcome) == noReads' = [noReads EXCEPT !.cache = outcome.c]

\* update() of the other instance: its two cache_clear() calls.
update_other ==
    /\ status = "ok"
    /\ cache' = cache_clear(cache)
    /\ UNCHANGED <<status, epsilon, reviewers, products, graph, heap, ret,
                   writes, nUpdates, nCalls, noReads>>

NextInstances ==
    \/ \E eps \in EpsilonInputsInstances : NewGraph(eps) /\ UNCHANGED noReads
    \/ Len(reviewers) < MaxReviewers /\ new_reviewer /\ UNCHANGED noReads
    \/ Len(products) < MaxProducts /\ new_product /\ UNCHANGED noReads
    \/ /\ Len(heap) < MaxReviews
       /\ \E r \in Range(reviewers), p \in Range(products), x \in Ratings :
             add_review(r, p, x) /\ add_review_noReads(x)
    \/ update /\ update_noReads
    \/ \E r \in Range(reviewers) \cup {NoNode}, p \in Range(products),
          l \in ProductLabel :
          /\ call_prod_message_from_users(r, p, l)
          /\ Read_noReads(prod_message_from_users(
                 noReads.cache, noReads.heap, r, p, l))
    \/ \E r \in Range(reviewers) :
          /\ call_anomalous_score(r)
          /\ Read_noReads(anomalous_score(noReads.cache, noReads.heap, r))
    \/ update_other

SpecInstances == Init /\ [][NextInstances]_vars

(***************************************************************************)
(* Runs that construct the graph first and then only call update() and     *)
(* read scores and summaries.                                              *)
(***************************************************************************)
EpsilonInputsRun == {<<1, 10>>, <<2, 5>>}

\* No update() call and no read has been made yet.
Constructing == nUpdates = 0 /\ nCalls = 0

NextRun ==
    /\ \/ \E eps \in EpsilonInputsRun : NewGraph(eps)
       \/ Constructing /\ Len(reviewers) < MaxReviewers /\ new_reviewer
       \/ Constructing /\ Len(products) < MaxProducts /\ new_product
       \/ /\ Constructing
          /\ Len(heap) < MaxReviews
          /\ \E r \in Range(reviewers), p \in Range(products),
                x \in RatingsReview : add_review(r, p, x)
       \/ update
       \/ \E r \in Range(reviewers) : call_anomalous_score(r)
       \/ \E p \in Range(products) : call_summary(p)
    /\ UNCHANGED noReads

SpecRun == Init /\ [][NextRun]_vars

(***************************************************************************)
(* The sample graph of tests/graph/test_graph_retrieval.py: two reviewers  *)
(* and three products, the i-th reviewer reviewing every product from the  *)
(* i-th on, the reviews added in any order, and update() called once the   *)
(* graph is complete.                                                      *)
(***************************************************************************)
FixtureReviewers == 2
FixtureProducts == 3

FixtureEdges ==
    {e \in (1..FixtureReviewers) \X (1..FixtureProducts) : e[2] >= e[1]}

\* The epsilon of the fixture, 0.1, and a smaller one.
FixtureEpsilons == {<<1, 20>>, <<1, 10>>}

NextFixture ==
    /\ \/ \E eps \in FixtureEpsilons : NewGraph(eps)
       \/ Len(reviewers) < FixtureReviewers /\ new_reviewer
       \/ Len(products) < FixtureProducts /\ new_product
       \/ \E e \in FixtureEdges \ DOMAIN graph.review, x \in Ratings :
             /\ e[1] \in Range(reviewers)
             /\ e[2] \in Range(products)
             /\ add_review(e[1], e[2], x)
       \/ DOMAIN graph.review = FixtureEdges /\ update
    /\ UNCHANGED noReads

SpecFixture == Init /\ [][NextFixture]_vars

(***************************************************************************)
(* Properties.                                                             *)
(***************************************************************************)
\* A step that is a call of update().
UpdateStep == nUpdates' = nUpdates + 1

\* The Review objects whose pair of the given direction the latest update()
\* rewrote.
Written(w, direction) == {i \in 1..Len(heap) : <<direction, i>> \in Range(w)}

\* The number of times the write w occurs in the list ws.
Occurrences(ws, w) == Cardinality({k \in 1..Len(ws) : ws[k] = w})

\* The reviews of the graph: the pairs add_review has been called for.
Edges == DOMAIN graph.review

\* C1: update() returns the largest, over every message pair it rewrote and
\* both labels of the pair, of the absolute difference between the
\* probability stored before the rewrite and the one stored by it.  No pair
\* is rewritten twice by a call, so the value stored before the rewrite is
\* the value stored before the call.
DeltasOfUpdate ==
    {QAbsDiff(heap[i].user_to_product[l], heap'[i].user_to_product[l]) :
        i \in Written(writes', "user_to_product"), l \in ProductLabel}
    \cup
    {QAbsDiff(heap[i].product_to_user[l], heap'[i].product_to_user[l]) :
        i \in Written(writes', "product_to_user"), l \in UserLabel}

C1_UpdateReturnsMaxDelta ==
    [][(UpdateStep /\ ret'.raised = None) =>
          /\ \A k \in 1..Len(writes') : Occurrences(writes', writes'[k]) = 1
          /\ ret'.v \in DeltasOfUpdate
          /\ \A d \in DeltasOfUpdate : QLeq(d, ret'.v)]_vars

\* C1 witness: after a call of a setter or a reading method, an update() has
\* rewritten pairs of both directions and returned a delta above zero.
C1_Witness ==
    /\ nUpdates > 0
    /\ ret.raised = None
    /\ Written(writes, "user_to_product") # {}
    /\ Written(writes, "product_to_user") # {}
    /\ QLess(Zero, ret.v)
    /\ nCalls > 0

\* C5: the anomalous score of every reviewer is strictly between 0 and 1, in
\* every state.
C5_ScoreStrictlyInside ==
    status = "ok" =>
        \A r \in Range(reviewers) :
            LET a == anomalous_score(cache, heap, r).v
            IN  0 < a[1] /\ a[1] < a[2]

\* C5 witness: after an update(), a reviewer with a review has a score other
\* than one half, and another reviewer has no review at all.
C5_Witness ==
    /\ nUpdates > 0
    /\ \E r \in Range(reviewers) :
          /\ graph.succ[r] # <<>>
          /\ anomalous_score(cache, heap, r).v # Half
    /\ \E r \in Range(reviewers) : graph.succ[r] = <<>>

\* C8: ReviewGraph(epsilon) raises and creates no graph exactly when
\* epsilon <= 0 or epsilon >= 0.5; otherwise the graph has empty node lists
\* and the epsilon given.
C8_ConstructorChecksEpsilon ==
    [][\A eps \in EpsilonInputsNew :
          NewGraph(eps) =>
             IF eps[1] <= 0 \/ 2 * eps[1] >= eps[2]
             THEN status' = ValueError /\ epsilon' = NoValue
             ELSE /\ status' = "ok"
                  /\ epsilon' = eps
                  /\ reviewers' = <<>>
                  /\ products' = <<>>]_vars

\* C8 witness: a graph was constructed with an epsilon just under 0.5.
C8_Witness == status = "ok" /\ epsilon = <<49, 100>>


\* C2: every update() call that returns has rewritten both message pairs of
\* every review of the graph exactly once.
C2_UpdateRewritesEveryReview ==
    [][(UpdateStep /\ ret'.raised = None) =>
          \A e \in Edges :
             /\ Occurrences(writes', <<"user_to_product", graph.review[e]>>) = 1
             /\ Occurrences(writes', <<"product_to_user", graph.review[e]>>) = 1]_vars

\* The two probabilities of a message pair sum to 1.
Normalized(pair, labels) ==
    LET ls == CHOOSE q \in [1..2 -> labels] : q[1] # q[2]
    IN  QAdd(pair[ls[1]], pair[ls[2]]) = One

\* C3: when an update() call has returned, both message pairs of every
\* review of the graph are normalized.
C3_NormalizedAfterUpdate ==
    [][(UpdateStep /\ ret'.raised = None) =>
          \A e \in Edges :
             /\ Normalized(heap'[graph.review[e]].user_to_product, ProductLabel)
             /\ Normalized(heap'[graph.review[e]].product_to_user, UserLabel)]_vars

\* The belief 2 * (the product, over all the products the reviewer reviewed,
\* of the product_to_user message stored on the review).
Belief(reviewer, u_label) ==
    LET E == {e \in Edges : e[1] = reviewer}
    IN  QMul(<<2, 1>>,
             np_sum([e \in E |-> heap[graph.review[e]].product_to_user[u_label]],
                    E))

\* C4: the anomalous score read of a reviewer is
\* b(FRAUD) / (b(HONEST) + b(FRAUD)).
C4_ScoreIsNormalizedBelief ==
    status = "ok" =>
        \A r \in Range(reviewers) :
            anomalous_score(cache, heap, r).v =
                QDiv(Belief(r, FRAUD), QAdd(Belief(r, HONEST), Belief(r, FRAUD)))

\* The trust weight of a reviewer: 1 - its anomalous score as read.
TrustWeight(reviewer) ==
    QSubtract(One, anomalous_score(cache, heap, reviewer).v)

\* The sum of f[k] over the keys k of S.
RECURSIVE SumOver(_, _)
SumOver(f, S) ==
    IF S = {} THEN Zero
    ELSE LET k == CHOOSE x \in S : TRUE
         IN  QAdd(f[k], SumOver(f, S \ {k}))

\* C6: the summary read of a product that has reviews is the average of
\* the ratings of its reviews weighted by the trust weights of its reviewers.
C6_SummaryIsTrustWeightedMean ==
    status = "ok" =>
        \A p \in Range(products) :
            LET E == {e \in Edges : e[2] = p}
            IN  E # {} =>
                  summary(cache, heap, p).v =
                     QDiv(SumOver([e \in E |->
                                     QMul(TrustWeight(e[1]),
                                          heap[graph.review[e]].rating)], E),
                          SumOver([e \in E |-> TrustWeight(e[1])], E))

\* C7: the summary read of any product of the graph is a number, never NaN.
C7_SummaryIsDefined ==
    status = "ok" =>
        \A p \in Range(products) : summary(cache, heap, p).v # NaN

\* C9: prod_message_from_users(r, p, L) is the product of the
\* user_to_product(L) messages stored on the reviews of p by reviewers other
\* than r, and prod_message_from_products(r, p, U) the product of the
\* product_to_user(U) messages stored on the reviews by r of products other
\* than p; with no reviewer (no product) given, nothing is left out.
C9_AggregatesAreCurrent ==
    status = "ok" =>
        /\ \A p \in Range(products), l \in ProductLabel :
              \A r \in {e[1] : e \in {x \in Edges : x[2] = p}} \cup {NoNode} :
                 LET E == {e \in Edges : e[2] = p /\ e[1] # r}
                 IN  prod_message_from_users(cache, heap, r, p, l).v =
                        np_sum([e \in E |->
                                  heap[graph.review[e]].user_to_product[l]], E)
        /\ \A r \in Range(reviewers), l \in UserLabel :
              \A p \in {e[2] : e \in {x \in Edges : x[1] = r}} \cup {NoNode} :
                 LET E == {e \in Edges : e[1] = r /\ e[2] # p}
                 IN  prod_message_from_products(cache, heap, r, p, l).v =
                        np_sum([e \in E |->
                                  heap[graph.review[e]].product_to_user[l]], E)

\* C10: retrieve_reviewers(p) returns the reviewers add_review was called
\* with for p, and retrieve_products(r) the products add_review was called
\* with for r.
C10_RetrievalIsCurrent ==
    status = "ok" =>
        /\ \A p \in Range(products) :
              Range(retrieve_reviewers(cache, p).v) =
                 {e[1] : e \in {x \in Edges : x[2] = p}}
        /\ \A r \in Range(reviewers) :
              Range(retrieve_products(cache, r).v) =
                 {e[2] : e \in {x \in Edges : x[1] = r}}

\* C11: retrieve_review(r, p) returns the review the latest add_review(r, p,
\* x) created, in every state, and an update() call rewrites the messages
\* of no other review.
C11_LastWriteWins ==
    [][/\ (\A e \in Edges :
              retrieve_review(cache, e[1], e[2]).v = graph.review[e])'
       /\ UpdateStep =>
             \A k \in 1..Len(writes') :
                writes'[k][2] \in {graph.review[e] : e \in Edges}]_vars

\* C12: every call of update() returns a number: it raises nothing, whatever
\* the graph, a graph without reviews or without nodes included.
C12_UpdateReturnsANumber ==
    [][UpdateStep => ret'.raised = None /\ ret'.v # NoValue]_vars

\* C14: an update() call that immediately follows an update() call which
\* returned the delta d changes every message by less than any threshold
\* above d: it returns a delta no larger than d.
C14_NextDeltaIsNoLarger ==
    [][(UpdateStep /\ nUpdates > 0 /\ ret.raised = None) =>
          ret'.raised = None /\ QLeq(ret'.v, ret.v)]_vars

\* C16: in every state, whatever calls were made, the user_to_product dict
\* of every Review has exactly the keys GOOD and BAD and its product_to_user
\* dict exactly the keys HONEST and FRAUD: a setter called with a label of
\* the other direction stores nothing.
C16_MessageKeys ==
    \A i \in 1..Len(heap) :
       /\ DOMAIN heap[i].user_to_product = ProductLabel
       /\ DOMAIN heap[i].product_to_user = UserLabel

\* C15: in every state, Review.user_to_product with a label that is no
\* ProductLabel, Review.product_to_user with a label that is no UserLabel
\* and retrieve_review for a pair without a review raise an exception, and
\* a step that is such a call leaves the Review objects, the graph and the
\* node lists as they were.
C15_DomainErrorsFail ==
    [][/\ (\A i \in 1..Len(heap) :
              /\ \A l \in Labels \ ProductLabel :
                    user_to_product(i, l).raised # None
              /\ \A l \in Labels \ UserLabel :
                    product_to_user(i, l).raised # None)'
       /\ (\A r \in Range(reviewers), p \in Range(products) :
              <<r, p>> \notin Edges =>
                 retrieve_review(cache, r, p).raised # None)'
       /\ \A i \in 1..Len(heap) :
             /\ \A l \in Labels \ ProductLabel :
                   call_user_to_product(i, l) =>
                      UNCHANGED <<heap, graph, reviewers, products>>
             /\ \A l \in Labels \ UserLabel :
                   call_product_to_user(i, l) =>
                      UNCHANGED <<heap, graph, reviewers, products>>
       /\ \A r \in Range(reviewers), p \in Range(products) :
             (<<r, p>> \notin Edges /\ call_retrieve_review(r, p)) =>
                UNCHANGED <<heap, graph, reviewers, products>>]_vars

\* C17: a step that reads Reviewer.anomalous_score or Product.summary leaves
\* the Review objects, the graph and the node lists as they were, and in
\* every state the messages, the latest result of update() and the score
\* and summary a read would return are those of the program that made the
\* same calls without the reads.
C17_ReadsChangeNoOutcome ==
    /\ [][((\E r \in Range(reviewers) : call_anomalous_score(r))
           \/ (\E p \in Range(products) : call_summary(p)))
          => UNCHANGED <<heap, graph, reviewers, products>>]_vars
    /\ [](/\ heap = noReads.heap
          /\ ret = noReads.ret
          /\ \A r \in Range(reviewers) :
                LET read == anomalous_score(cache, heap, r)
                    other == anomalous_score(noReads.cache, noReads.heap, r)
                IN  read.v = other.v /\ read.raised = other.raised
          /\ \A p \in Range(products) :
                LET read == summary(cache, heap, p)
                    other == summary(noReads.cache, noReads.heap, p)
                IN  read.v = other.v /\ read.raised = other.raised)

\* C18: for the epsilon n/d of every graph constructed, psi returns a number
\* for each of the eight label triples, the one of the table: for PLUS
\* (d-n)/d for honest and good, n/d for honest and bad, 2n/d for fraud and
\* good, (d-2n)/d for fraud and bad, for MINUS the same with good and bad
\* exchanged; and for every user label and review label its values for GOOD
\* and for BAD add up to 1.
C18_PsiTruthTable ==
    status = "ok" =>
       LET n == epsilon[1]
           d == epsilon[2]
       IN  /\ psi(HONEST, GOOD, PLUS, epsilon) = Q(d - n, d)
           /\ psi(HONEST, BAD, PLUS, epsilon) = Q(n, d)
           /\ psi(FRAUD, GOOD, PLUS, epsilon) = Q(2 * n, d)
           /\ psi(FRAUD, BAD, PLUS, epsilon) = Q(d - 2 * n, d)
           /\ psi(HONEST, GOOD, MINUS, epsilon) = Q(n, d)
           /\ psi(HONEST, BAD, MINUS, epsilon) = Q(d - n, d)
           /\ psi(FRAUD, GOOD, MINUS, epsilon) = Q(d - 2 * n, d)
           /\ psi(FRAUD, BAD, MINUS, epsilon) = Q(2 * n, d)
           /\ \A u \in UserLabel, r \in ReviewLabel :
                 QAdd(psi(u, GOOD, r, epsilon), psi(u, BAD, r, epsilon)) = One

\* C18 witness: a graph whose epsilon is 1/4, where psi gives a fraud 1/2 for
\* either product label.
C18_Witness ==
    /\ status = "ok"
    /\ epsilon = <<1, 4>>
    /\ psi(FRAUD, GOOD, PLUS, epsilon) = Half
    /\ psi(FRAUD, BAD, PLUS, epsilon) = Half

\* C19: after every step, the evaluation of every Review is PLUS if its
\* rating n/d is at least 0.5 (2n >= d, 0.5 included) and MINUS otherwise,
\* and a Review that existed before the step has the rating and the
\* evaluation it had before.
C19_EvaluationIsFixed ==
    [][\A i \in 1..Len(heap') :
          /\ evaluation(heap'[i]) =
                IF 2 * heap'[i].rating[1] >= heap'[i].rating[2]
                THEN PLUS ELSE MINUS
          /\ i <= Len(heap) =>
                /\ heap'[i].rating = heap[i].rating
                /\ evaluation(heap'[i]) = evaluation(heap[i])]_vars

\* C19 witness: a Review rated exactly 0.5 is PLUS after update() has
\* rewritten its messages.
C19_Witness ==
    /\ nUpdates > 0
    /\ \E i \in 1..Len(heap) :
          /\ heap[i].rating = Half
          /\ evaluation(heap[i]) = PLUS
          /\ heap[i].user_to_product[GOOD] # LOG_POINT_5

\* C20: the Review a step creates has the four messages log(0.5), and a step
\* changes the messages of an existing Review only if it is an update() call
\* that rewrote a message pair of it or a call of one of its two setters, so
\* a Review keeps its first messages until such a step.
C20_FreshMessages ==
    [][\A i \in 1..Len(heap') :
          IF i > Len(heap)
          THEN /\ heap'[i].user_to_product[GOOD] = Half
               /\ heap'[i].user_to_product[BAD] = Half
               /\ heap'[i].product_to_user[HONEST] = Half
               /\ heap'[i].product_to_user[FRAUD] = Half
               /\ DOMAIN heap'[i].user_to_product = ProductLabel
               /\ DOMAIN heap'[i].product_to_user = UserLabel
          ELSE \/ /\ heap'[i].user_to_product = heap[i].user_to_product
                  /\ heap'[i].product_to_user = heap[i].product_to_user
               \/ /\ UpdateStep
                  /\ i \in Written(writes', "user_to_product")
                           \cup Written(writes', "product_to_user")
               \/ \E l \in Labels, v \in SetValues :
                     \/ update_user_to_product(i, l, v)
                     \/ update_product_to_user(i, l, v)]_vars

\* C20 witness: after an update() call that rewrote the first Review, a
\* second Review has been added and still has its four first messages.
C20_Witness ==
    /\ nUpdates > 0
    /\ Len(heap) = 2
    /\ heap[1].user_to_product[GOOD] # Half
    /\ heap[2] = Review(heap[2].rating)

\* What Product.summary reads: the reviewers retrieve_reviewers returns for
\* the product, the rating of the Review retrieve_review returns for each
\* of them, and the anomalous score of each.
ReadReviewers(p) == Range(retrieve_reviewers(cache, p).v)

ReadRating(r, p) == heap[retrieve_review(cache, r, p).v].rating

ReadScore(r) == anomalous_score(cache, heap, r).v

\* The average of the ratings read for the product p, the rating of the
\* reviewer r weighted by w[r].
WeightedMean(p, w) ==
    LET R == ReadReviewers(p)
    IN  QDiv(SumOver([r \in R |-> QMul(w[r], ReadRating(r, p))], R),
             SumOver([r \in R |-> w[r]], R))

NormalizedPair(m, labels) ==
    LET s == SumOver(m, labels)
    IN  [l \in labels |-> QDiv(m[l], s)]

\* C22: after every update() call, the product_to_user pair of each Review
\* the second loop visited (the Review retrieve_review returns for a
\* reviewer retrieve_reviewers returns for the product) is the normalized
\* sum over the product labels L of psi * 2 * the product of the
\* user_to_product(L) messages, as the first loop of this call left them,
\* of the other reviewers of the product.
C22_PhaseBReadsPhaseA ==
    [][UpdateStep =>
          \A p \in Range(products) :
             LET rs == Range(cache'.retrieve_reviewers[p])
             IN  \A r \in rs :
                    LET review == heap'[cache'.retrieve_review[<<r, p>>]]
                        others == rs \ {r}
                        from_users(l) ==
                            np_sum([r2 \in others |->
                                      heap'[cache'.retrieve_review[<<r2, p>>]]
                                         .user_to_product[l]], others)
                        raw == [u \in UserLabel |->
                                  QAdd(QMul(QMul(psi(u, GOOD, evaluation(review),
                                                     epsilon), <<2, 1>>),
                                            from_users(GOOD)),
                                       QMul(QMul(psi(u, BAD, evaluation(review),
                                                     epsilon), <<2, 1>>),
                                            from_users(BAD)))]
                    IN  review.product_to_user = NormalizedPair(raw, UserLabel)]_vars

\* C23: after every update() call that returns, both aggregate caches are
\* empty, and a read of an aggregate then returns the product of the
\* messages now stored in the Review objects of the node's neighbours.
C23_AggregatesCleared ==
    [][(UpdateStep /\ ret'.raised = None) =>
          /\ cache'.prod_message_from_all_users = Empty
          /\ cache'.prod_message_from_all_products = Empty
          /\ \A p \in Range(products), l \in ProductLabel :
                LET rs == Range(cache'.retrieve_reviewers[p])
                IN  prod_message_from_all_users(cache', heap', p, l).v =
                       np_sum([r \in rs |->
                                 heap'[cache'.retrieve_review[<<r, p>>]]
                                    .user_to_product[l]], rs)
          /\ \A r \in Range(reviewers), l \in UserLabel :
                LET ps == Range(cache'.retrieve_products[r])
                IN  prod_message_from_all_products(cache', heap', r, l).v =
                       np_sum([p \in ps |->
                                 heap'[cache'.retrieve_review[<<r, p>>]]
                                    .product_to_user[l]], ps)]_vars

\* C23 witness: an update() call that rewrote messages has returned and no
\* aggregate is memoized.
C23_Witness ==
    /\ nUpdates > 0
    /\ ret.raised = None
    /\ ret.v # Zero
    /\ writes # <<>>
    /\ cache.prod_message_from_all_users = Empty
    /\ cache.prod_message_from_all_products = Empty

\* C24: in every state, for every review <<r, p>> of the graph and product
\* label L, _update_user_to_product(r, p, L) returns the sum over the user
\* labels U of psi(U, L, evaluation, epsilon) * 2 * the product of the
\* product_to_user(U) messages of the reviews of r on products other than p.
C24_RawUserToProduct ==
    status = "ok" =>
       \A e \in Edges, l \in ProductLabel :
          LET others == {e2 \in Edges : e2[1] = e[1] /\ e2[2] # e[2]}
              from_products(u) ==
                  np_sum([e2 \in others |->
                            heap[graph.review[e2]].product_to_user[u]], others)
              term(u) ==
                  QMul(QMul(psi(u, l, evaluation(heap[graph.review[e]]),
                                epsilon), <<2, 1>>),
                       from_products(u))
              raw == _update_user_to_product(cache, heap, e[1], e[2], l)
          IN  /\ raw.raised = None
              /\ raw.v = QAdd(term(HONEST), term(FRAUD))

\* C25: in every state, for every review <<r, p>> of the graph and user
\* label U, _update_product_to_user(r, p, U) returns the sum over the
\* product labels L of psi(U, L, evaluation, epsilon) * 2 * the product of
\* the user_to_product(L) messages of the reviews of p by reviewers other
\* than r.
C25_RawProductToUser ==
    status = "ok" =>
       \A e \in Edges, u \in UserLabel :
          LET others == {e2 \in Edges : e2[2] = e[2] /\ e2[1] # e[1]}
              from_users(l) ==
                  np_sum([e2 \in others |->
                            heap[graph.review[e2]].user_to_product[l]], others)
              term(l) ==
                  QMul(QMul(psi(u, l, evaluation(heap[graph.review[e]]),
                                epsilon), <<2, 1>>),
                       from_users(l))
              raw == _update_product_to_user(cache, heap, e[1], e[2], u)
          IN  /\ raw.raised = None
              /\ raw.v = QAdd(term(GOOD), term(BAD))

\* The orders in which the elements of a finite set can be processed.
Orders(S) ==
    {f \in [1..Cardinality(S) -> S] : \A x \in S : \E k \in DOMAIN f : f[k] = x}

\* The reviews the first loop of update() processes, and those of the
\* second loop.
PhaseAReviews ==
    {<<r, p>> : r \in Range(reviewers), p \in Range(products)} \cap
    {e \in Range(reviewers) \X Range(products) :
        e[2] \in Range(retrieve_products(cache, e[1]).v)}

PhaseBReviews ==
    {e \in Range(reviewers) \X Range(products) :
        e[1] \in Range(retrieve_reviewers(cache, e[2]).v)}

\* The first loop of update() over the reviews in the order given, from the
\* k-th, and the second loop likewise.
RECURSIVE PhaseAInOrder(_, _, _)
PhaseAInOrder(st, order, k) ==
    IF k > Len(order) THEN st
    ELSE PhaseAInOrder(user_to_product_step(st, order[k][1], order[k][2]),
                       order, k + 1)

RECURSIVE PhaseBInOrder(_, _, _)
PhaseBInOrder(st, order, k) ==
    IF k > Len(order) THEN st
    ELSE PhaseBInOrder(product_to_user_step(st, order[k][1], order[k][2]),
                       order, k + 1)

\* The order independence alone: whatever the order of the reviews in each
\* loop, the Review objects and the delta are those of the update() call.
OrderIndependent ==
    [][UpdateStep =>
          \A a \in Orders(PhaseAReviews), b \in Orders(PhaseBReviews) :
             LET st == PhaseBInOrder(
                           PhaseAInOrder(Progress(cache, heap, <<>>, <<>>), a, 1),
                           b, 1)
             IN  st.h = heap' /\ max_diffs(st.diffs) = ret']_vars

\* C26: for every update() call and every order of the reviews in each
\* loop, the Review objects and the delta are those of the call, the first
\* loop reads no aggregate over products and the second no aggregate over
\* users memoized before the call: the loops run from aggregate caches
\* emptied beforehand end in the same Review objects and delta.
C26_PhasesAreOrderIndependent ==
    [][UpdateStep =>
          \A a \in Orders(PhaseAReviews), b \in Orders(PhaseBReviews) :
             LET first == PhaseAInOrder(
                              Progress(cache_clear(cache), heap, <<>>, <<>>),
                              a, 1)
                 st == PhaseBInOrder([first EXCEPT !.c = cache_clear(@)], b, 1)
             IN  st.h = heap' /\ max_diffs(st.diffs) = ret']_vars

\* C27: an update() call leaves epsilon, the node lists, the graph and the
\* rating and evaluation of every Review as they were, creates no Review,
\* and writes each of the two message pairs of every review of the graph
\* exactly once.
C27_UpdateWritesMessagesOnly ==
    [][UpdateStep =>
          /\ UNCHANGED <<status, epsilon, reviewers, products, graph>>
          /\ Len(heap') = Len(heap)
          /\ \A i \in 1..Len(heap) :
                /\ heap'[i].rating = heap[i].rating
                /\ evaluation(heap'[i]) = evaluation(heap[i])
          /\ \A e \in Edges, direction \in {"user_to_product", "product_to_user"} :
                Occurrences(writes', <<direction, graph.review[e]>>) = 1]_vars

\* The Review objects that are the reviews of the graph.
GraphReviews == {graph.review[e] : e \in Edges}

\* C28: when update() is called on two graphs with the same nodes, reviews,
\* ratings, epsilon and product_to_user messages, different user_to_product
\* messages and no aggregate memoized, every Review of the first has after
\* the call the messages, in both directions, of its counterpart in the
\* second.
C28_UpdateForgetsUserToProduct ==
    [][(/\ UpdateStep
        /\ \A i \in GraphReviews :
              heap[i].product_to_user = noReads.heap[i].product_to_user
        /\ \E i \in GraphReviews :
              heap[i].user_to_product # noReads.heap[i].user_to_product
        /\ cache.prod_message_from_all_users = Empty
        /\ cache.prod_message_from_all_products = Empty
        /\ noReads.cache.prod_message_from_all_users = Empty
        /\ noReads.cache.prod_message_from_all_products = Empty)
       => \A i \in GraphReviews :
             /\ heap'[i].user_to_product = noReads'.heap[i].user_to_product
             /\ heap'[i].product_to_user = noReads'.heap[i].product_to_user]_vars


\* The Review objects of the products that have exactly one review.
SingleReviews ==
    {graph.review[e] : e \in {d \in Edges :
        Cardinality({f \in Edges : f[2] = d[2]}) = 1}}

\* C29: in a run that constructs the graph and then only calls update() and
\* reads scores and summaries, once update() has been called the review of a
\* product that has exactly one review holds the product_to_user message
\* 0.5 for HONEST and 0.5 for FRAUD.
C29_SingleReviewIsUniform ==
    nUpdates > 0 =>
        \A i \in SingleReviews :
            heap[i].product_to_user = [l \in UserLabel |-> Half]

\* C29: update() has rewritten the product_to_user pair of the only review of
\* a product, a review rated away from 0.5 whose user_to_product message the
\* call made non-uniform, in a graph where another product has a review too.
C29_Witness ==
    /\ status = "ok"
    /\ nUpdates > 0
    /\ \E i \in SingleReviews :
          /\ <<"product_to_user", i>> \in Range(writes)
          /\ heap[i].rating # Half
          /\ heap[i].user_to_product # [l \in ProductLabel |-> Half]
          /\ heap[i].product_to_user = [l \in UserLabel |-> Half]
    /\ Cardinality({e[2] : e \in Edges}) = 2


\* C30: every value observable on the graph, the messages, the latest result
\* of update(), the aggregates read with prod_message_from_users and
\* prod_message_from_products, the anomalous scores and the summaries, is the
\* one observable in the program that makes the same calls on the graph and
\* none on the other instance.
C30_InstancesDoNotInterfere ==
    /\ heap = noReads.heap
    /\ ret = noReads.ret
    /\ \A r \in Range(reviewers) \cup {NoNode}, p \in Range(products),
          l \in ProductLabel :
          LET read == prod_message_from_users(cache, heap, r, p, l)
              other == prod_message_from_users(
                           noReads.cache, noReads.heap, r, p, l)
          IN  read.v = other.v /\ read.raised = other.raised
    /\ \A r \in Range(reviewers), p \in Range(products) \cup {NoNode},
          l \in UserLabel :
          LET read == prod_message_from_products(cache, heap, r, p, l)
              other == prod_message_from_products(
                           noReads.cache, noReads.heap, r, p, l)
          IN  read.v = other.v /\ read.raised = other.raised
    /\ \A r \in Range(reviewers) :
          LET read == anomalous_score(cache, heap, r)
              other == anomalous_score(noReads.cache, noReads.heap, r)
          IN  read.v = other.v /\ read.raised = other.raised
    /\ \A p \in Range(products) :
          LET read == summary(cache, heap, p)
              other == summary(noReads.cache, noReads.heap, p)
          IN  read.v = other.v /\ read.raised = other.raised

=============================================================================
